---- MODULE Spec2Model ----
(***************************************************************************)
(* The AfterClasses backend (src/server.js and its two deployment variants *)
(* src/unnamed/part_000, src/unnamed/part_001) as a state machine.         *)
(*                                                                         *)
(* State: the relational tables the handlers query (otps, users,           *)
(* approaches, messages), the wall clock, one record per HTTP request in   *)
(* flight holding the handler's position (the await it is suspended at)    *)
(* and its locals, and the state of the chat section: the open socket.io   *)
(* connections with their rooms, the Map onlineUsers and the send_message  *)
(* handlers in flight.                                                     *)
(* Every `await pool.query(...)` of an HTTP handler is one action: the     *)
(* store executes the statement (or rejects) and the handler's             *)
(* continuation runs up to the next await or to its response.  A rejected  *)
(* await jumps to the handler's catch block.  For send_message the INSERT  *)
(* and the continuation that emits the saved row are two actions, so that  *)
(* other socket events can come between them.                              *)
(***************************************************************************)
EXTENDS Integers, Sequences, FiniteSets, TLC

VARIABLES
    variant,      \* which of the three source files is deployed
    now,          \* Date.now(), in milliseconds since the server started
    otps,         \* table otps: a set of rows
    nextOtpId,    \* the serial key the next otps row gets
    users,        \* table users: id -> row
    approaches,   \* table approaches: the rows in insertion order
    reqs,         \* the requests whose handler is suspended at an await
    nreq,         \* requests received so far
    last,         \* the request that responded last, with its response
    consumed,     \* ids of the otps rows a verify-otp has answered success for
    issued,       \* email -> the newest otps row inserted for it (NoRow: none)
    verified,     \* emails a verify-otp has answered success for
    sent,         \* request -> the number of responses its handler has sent
    messages,     \* table messages: the rows in insertion order
    sockets,      \* ids of the socket.io connections that are open
    nsock,        \* connections accepted so far
    rooms,        \* open connection -> the rooms it has joined
    onlineUsers,  \* the Map onlineUsers: its entries in insertion order
    sending,      \* the send_message handlers suspended at their await
    nevt,         \* socket events received so far
    emitted,      \* the event emitted last, with the connections it went to
    joinLog,      \* the join_room events received: <<connection, userId, otherUserId>>
    connectLog    \* the user_connected events received, in order

\* The state of the chat section (socket.io, the messages table).
chatVars == <<messages, sockets, nsock, rooms, onlineUsers, sending, nevt,
              emitted, joinLog, connectLog>>

vars == <<variant, now, otps, nextOtpId, users, approaches, reqs, nreq, last,
          consumed, issued, verified, sent, chatVars>>

(* ------------------------------ bounds --------------------------------- *)

\* Spec, the auth routes with overlapping requests: requests received in one
\* behaviour, handlers suspended at an await at the same time, clock advances.
NumReq == 4
MaxInFlight == 2
MaxTicks == 1

\* SeqSpec, the auth routes with one request at a time: requests, clock
\* advances.
SeqReq == 3
SeqTicks == 2

\* CoinSpec, the approach route with overlapping requests: requests, handlers
\* suspended at the same time.
CoinReq == 3
CoinInFlight == 2

\* SeqCoinSpec, the approach route with one request at a time: requests.
SeqCoinReq == 3

\* ProfileSpec, the auth routes and create-profile with one request at a
\* time: requests.
ProfReq == 3

\* RouteSpec, the six HTTP routes with overlapping requests: requests,
\* handlers suspended at the same time.
RouteReq == 2
RouteInFlight == 2

\* ChatSpec, the socket.io events: connections accepted, events received.
MaxSockets == 2
MaxEvents == 3

\* HistorySpec, the history route over a growing messages table: history
\* requests, send_message events, clock advances.
HistReq == 2
HistEvents == 3
HistTicks == 2

(* ------------------------- deployment variants ------------------------- *)

Variants == {"server.js", "part_000", "part_001"}

\* server.js awaits transporter.sendMail; the two variants fire and forget.
AwaitsMail == variant = "server.js"

\* The variants echo the generated code in the response body.
ExposesOtp == variant # "server.js"

(* ------------------------------ inputs --------------------------------- *)

\* An email is a sequence of chunks, the last being its domain suffix; the
\* empty sequence is the missing/empty string (falsy in JavaScript).
NoEmail == << >>
EmailA == <<"a", "@LJKU.edu.in">>
EmailB == <<"b", "@x.edu">>
EmailC == <<"c", "@LJKU.edu.in">>
Emails == {EmailA, EmailB}
EmailInputs == Emails \cup {NoEmail}

\* String.prototype.endsWith on the chunked email.
EndsWith(email, suffix) == Len(email) > 0 /\ email[Len(email)] = suffix

\* Math.floor(100000 + Math.random() * 900000).toString(): two of the
\* 900000 six-digit strings stand for the range.
Codes == {"123456", "654321"}

\* 5 * 60 * 1000 milliseconds.
OtpTtl == 5 * 60 * 1000

\* The clock moves by a millisecond or by the whole validity window.
TickSteps == {1, OtpTtl}
Ticks == (now \div OtpTtl) + (now % OtpTtl)

(* ------------------------------ responses ------------------------------ *)

NoResponse == [status |-> 0]
Error(code, text) == [status |-> code, error |-> text]

SendOtpMessage ==
    CASE variant = "server.js" -> "OTP sent successfully to your email!"
      [] variant = "part_000" -> "OTP sent! (Demo Mode: Check Popup)"
      [] OTHER -> "OTP sent successfully"

SendOtpError ==
    IF variant = "server.js" THEN "Failed to send email. Check SMTP settings."
    ELSE "Internal Server Error"

\* res.json({ success, message, isNewUser [, otp] })
SendOtpSuccess(isNewUser, otp) ==
    IF ExposesOtp
    THEN [status |-> 200, success |-> TRUE, message |-> SendOtpMessage,
          isNewUser |-> isNewUser, otp |-> otp]
    ELSE [status |-> 200, success |-> TRUE, message |-> SendOtpMessage,
          isNewUser |-> isNewUser]

\* Mutant of EmailRejected: the domain check is left out.
EmailRejectedIfEmpty(email) == email = NoEmail

\* if (!email) / if (!email || !email.endsWith('@LJKU.edu.in'))
EmailRejected(email) ==
    IF variant = "part_001"
    THEN email = NoEmail \/ ~EndsWith(email, "@LJKU.edu.in")
    ELSE email = NoEmail

EmailRejection ==
    IF variant = "part_001" THEN Error(400, "Only @LJKU.edu.in emails allowed")
    ELSE Error(400, "Email is required")

(* ------------------------------- store --------------------------------- *)

\* SELECT ... FROM users WHERE email = $1
UsersByEmail(email) == {u \in DOMAIN users : users[u].email = email}

\* Rows of otps for one email.
OtpRows(email) == {r \in otps : r.email = email}

\* SELECT * FROM otps WHERE email = $1 ORDER BY created_at DESC LIMIT 1:
\* the rows the store may return first (rows with equal created_at are in
\* no defined order).
LatestOtpRows(email) ==
    {r \in OtpRows(email) : \A q \in OtpRows(email) : q.created_at <= r.created_at}

\* Mutant of DeleteOtpsByEmail: the DELETE is left out.
DeleteOtpsByEmailSkipped(email) == otps

\* DELETE FROM otps WHERE email = $1
DeleteOtpsByEmail(email) == otps \ OtpRows(email)

\* Mutant of DeleteOtpById: the used row is not deleted.
DeleteOtpByIdSkipped(id) == otps

\* DELETE FROM otps WHERE id = $1
DeleteOtpById(id) == {r \in otps : r.id # id}

\* INSERT INTO otps (email, otp, expires_at) VALUES ($1, $2, $3); id is the
\* table's serial key and created_at the store's clock at the insert.
NewOtpRow(email, otp, expiresAt) ==
    [id |-> nextOtpId, email |-> email, otp |-> otp,
     expires_at |-> expiresAt, created_at |-> now]

\* new Date() > new Date(record.expires_at)
IsExpired(record) == now > record.expires_at

\* Coins granted by create-profile, and the price of an approach.
StartingCoins == 400
ApproachCost == 10

\* SELECT coins FROM users WHERE id = $1: the coins of the rows found.
CoinsOf(id) == {users[u].coins : u \in {x \in DOMAIN users : x = id}}

\* Mutant of NotEnoughCoins: <= for <.
NotEnoughCoinsOffByOne(coins) == coins <= ApproachCost

\* userRes.rows[0].coins < 10
NotEnoughCoins(coins) == coins < ApproachCost

\* UPDATE users SET coins = coins - 10 WHERE id = $1
DebitCoins(id) ==
    [u \in DOMAIN users |->
        IF u = id THEN [users[u] EXCEPT !.coins = @ - ApproachCost] ELSE users[u]]

\* INSERT INTO approaches (from_user_id, to_user_id, request_line) VALUES ...
\* (request_line is carried along unread and left out.)
InsertApproach(from, to) ==
    Append(approaches, [from_user_id |-> from, to_user_id |-> to])

(* ------------------------------ requests ------------------------------- *)

NoRequest == [route |-> "none", res |-> NoResponse]
NoEvent == [event |-> "none"]
NoRow == [id |-> 0]

\* What is kept of a request once it has responded: the response and, of
\* the handler's locals, those the response is judged by.
\*   send-otp: rowId is the row it inserted (0: none), deleted the number of
\*     rows its DELETE removed, mail the outcome of sendMail.
\*   verify-otp: rowId is the row it looked up (0: none); matches, that the
\*     row's code equals the submitted one; pastExpiry and calledPastExpiry,
\*     that the row's expiry lay before the check and before the call; stale,
\*     that before the call a row had been inserted for the email after this
\*     one (a later id and created_at) with another code; replay, again and
\*     retry as set by the handler's actions below.
\*   approach: the whole record.
Event(r, response) ==
    CASE r.route = "send-otp" ->
           [route |-> r.route, res |-> response, email |-> r.email, otp |-> r.otp,
            rowId |-> r.rowId, deleted |-> r.deleted, mail |-> r.mail]
      [] r.route = "verify-otp" ->
           [route |-> r.route, res |-> response, email |-> r.email, otp |-> r.otp,
            rowId |-> r.record.id,
            matches |-> r.record # NoRow /\ r.record.otp = r.otp,
            pastExpiry |-> r.record # NoRow /\ r.checkedAt > r.record.expires_at,
            calledPastExpiry |-> r.record # NoRow /\ r.calledAt > r.record.expires_at,
            stale |-> /\ r.record # NoRow /\ r.record.id < r.newest.id
                      /\ r.record.created_at < r.newest.created_at
                      /\ r.record.otp # r.newest.otp,
            replay |-> r.replay, again |-> r.again, retry |-> r.retry]
      [] OTHER -> [r EXCEPT !.id = 0, !.pc = "done", !.res = response]

\* A request is received: total bounds the requests of the behaviour, limit
\* the handlers suspended at once.
CanBegin(total, limit) == nreq < total /\ Cardinality(reqs) < limit

\* The handler of r reaches its next await with its locals as in r2.
Continue(r, r2) == reqs' = (reqs \ {r}) \cup {r2} /\ UNCHANGED <<last, sent>>

\* Mutant of Finish: the response is sent and the handler runs on (a
\* res.json(...) with no return).
FinishWithoutReturn(r, r2, response) ==
    /\ reqs' = reqs
    /\ last' = Event(r2, response)
    /\ sent' = [sent EXCEPT ![r.id] = @ + 1]

\* The handler of r sends its response, its locals being as in r2, and
\* returns.
Finish(r, r2, response) ==
    /\ reqs' = reqs \ {r}
    /\ last' = Event(r2, response)
    /\ sent' = [sent EXCEPT ![r.id] = @ + 1]

Respond(r, response) == Finish(r, r, response)

(* ------------------------ POST /api/auth/send-otp ---------------------- *)

\* const { email } = req.body; the validation; the users lookup is issued.
SendOtpBegin(total, limit, emails) ==
    /\ CanBegin(total, limit)
    /\ nreq' = nreq + 1
    /\ \E email \in emails :
         LET r == [id |-> nreq + 1, route |-> "send-otp", pc |-> "s_user",
                   res |-> NoResponse, email |-> email, isNewUser |-> FALSE,
                   otp |-> "", issuedAt |-> 0, expiresAt |-> 0, rowId |-> 0,
                   deleted |-> 0,
                   mail |-> "none"]
         IN  IF EmailRejected(email)
             THEN /\ last' = Event(r, EmailRejection)
                  /\ sent' = Append(sent, 1)
                  /\ UNCHANGED reqs
             ELSE /\ reqs' = reqs \cup {r}
                  /\ sent' = Append(sent, 0)
                  /\ UNCHANGED last
    /\ UNCHANGED <<chatVars, verified, variant, now, otps, nextOtpId, users, approaches, consumed, issued>>

\* new Date(Date.now() + 5 * 60 * 1000)
ExpiresAt == now + OtpTtl

\* await SELECT id FROM users WHERE email = $1; otp and expiresAt computed.
\* issuedAt is the Date.now() the expiry is computed from.
SendOtpSelectUser(r) ==
    /\ r.pc = "s_user"
    /\ \/ \E otp \in Codes :
            Continue(r, [r EXCEPT !.pc = "s_del",
                                  !.isNewUser = UsersByEmail(r.email) = {},
                                  !.otp = otp,
                                  !.issuedAt = now,
                                  !.expiresAt = ExpiresAt])
       \/ Respond(r, Error(500, SendOtpError))
    /\ UNCHANGED <<chatVars, verified, variant, now, otps, nextOtpId, users, approaches, nreq, consumed, issued>>

\* await DELETE FROM otps WHERE email = $1
SendOtpDelete(r) ==
    /\ r.pc = "s_del"
    /\ \/ /\ otps' = DeleteOtpsByEmail(r.email)
          /\ Continue(r, [r EXCEPT !.pc = "s_ins",
                                   !.deleted = Cardinality(otps) - Cardinality(otps')])
       \/ /\ Respond(r, Error(500, SendOtpError))
          /\ UNCHANGED otps
    /\ UNCHANGED <<chatVars, verified, variant, now, nextOtpId, users, approaches, nreq, consumed, issued>>

\* What follows the insert. server.js suspends at await sendMail; the two
\* variants call sendMail without awaiting it (its outcome is only logged by
\* the .then/.catch callbacks) and respond at once.
AfterInsert(r) ==
    IF AwaitsMail
    THEN Continue(r, [r EXCEPT !.pc = "s_mail", !.rowId = nextOtpId])
    ELSE \E outcome \in {"sent", "failed"} :
            Finish(r, [r EXCEPT !.rowId = nextOtpId, !.mail = outcome],
                   SendOtpSuccess(r.isNewUser, r.otp))

\* await INSERT INTO otps (email, otp, expires_at) VALUES ($1, $2, $3)
SendOtpInsert(r) ==
    /\ r.pc = "s_ins"
    /\ \/ /\ otps' = otps \cup {NewOtpRow(r.email, r.otp, r.expiresAt)}
          /\ nextOtpId' = nextOtpId + 1
          /\ issued' = [issued EXCEPT ![r.email] =
                                    NewOtpRow(r.email, r.otp, r.expiresAt)]
          /\ AfterInsert(r)
       \/ /\ Respond(r, Error(500, SendOtpError))
          /\ UNCHANGED <<otps, nextOtpId, issued>>
    /\ UNCHANGED <<chatVars, verified, variant, now, users, approaches, nreq, consumed>>

\* await transporter.sendMail(mailOptions)  (server.js only)
SendOtpMail(r) ==
    /\ r.pc = "s_mail"
    /\ \/ Finish(r, [r EXCEPT !.mail = "sent"], SendOtpSuccess(r.isNewUser, r.otp))
       \/ Finish(r, [r EXCEPT !.mail = "failed"], Error(500, SendOtpError))
    /\ UNCHANGED <<chatVars, verified, variant, now, otps, nextOtpId, users, approaches, nreq, consumed, issued>>

(* ----------------------- POST /api/auth/verify-otp --------------------- *)

\* The response of a verify-otp that found, checked and deleted its row.
IsVerified(r) == r.route = "verify-otp" /\ r.res.status = 200

\* const { email, otp } = req.body; the otps lookup is issued.  calledAt is
\* the time of the call and newest the newest row issued for the email by
\* then; replay records that the call repeats the email and code of a
\* verify-otp that has just answered success, retry that it follows a
\* verify-otp for the email that has just answered 'Wrong OTP'.
VerifyOtpBegin(total, limit, emails) ==
    /\ CanBegin(total, limit)
    /\ nreq' = nreq + 1
    /\ \E email \in emails, otp \in Codes :
         reqs' = reqs \cup
            {[id |-> nreq + 1, route |-> "verify-otp", pc |-> "v_sel",
              res |-> NoResponse, email |-> email, otp |-> otp,
              record |-> NoRow, user |-> {}, calledAt |-> now, checkedAt |-> 0,
              newest |-> issued[email],
              replay |-> IsVerified(last) /\ last.email = email /\ last.otp = otp,
              again |-> FALSE,
              retry |-> /\ last.route = "verify-otp" /\ last.email = email
                        /\ last.res = Error(400, "Wrong OTP")]}
    /\ sent' = Append(sent, 0)
    /\ UNCHANGED <<chatVars, verified, variant, now, otps, nextOtpId, users, approaches, last,
                   consumed, issued>>

\* Mutant of VerifyChecks: the code is compared before the expiry.
VerifyChecksCodeFirst(r, rows) ==
    IF rows = {} THEN Respond(r, Error(400, "No OTP found"))
    ELSE \E record \in rows :
            LET r2 == [r EXCEPT !.record = record, !.checkedAt = now]
            IN  IF record.otp # r.otp THEN Finish(r, r2, Error(400, "Wrong OTP"))
                ELSE IF IsExpired(record) THEN Finish(r, r2, Error(400, "OTP expired"))
                ELSE Continue(r, [r2 EXCEPT !.pc = "v_user"])

\* The three checks on the looked-up row, in the order of the code;
\* checkedAt is the new Date() the expiry is compared with.
VerifyChecks(r, rows) ==
    IF rows = {} THEN Respond(r, Error(400, "No OTP found"))
    ELSE \E record \in rows :
            LET r2 == [r EXCEPT !.record = record, !.checkedAt = now]
            IN  IF IsExpired(record) THEN Finish(r, r2, Error(400, "OTP expired"))
                ELSE IF record.otp # r.otp THEN Finish(r, r2, Error(400, "Wrong OTP"))
                ELSE Continue(r, [r2 EXCEPT !.pc = "v_user"])

\* Mutant of VerifyOtpSelect: a wrong guess deletes the row it was compared
\* with.
VerifyOtpSelectConsumes(r) ==
    /\ r.pc = "v_sel"
    /\ \/ VerifyChecks(r, LatestOtpRows(r.email))
       \/ Respond(r, Error(500, "Verification failed"))
    /\ otps' = IF r \notin reqs' /\ last'.res = Error(400, "Wrong OTP")
               THEN DeleteOtpById(last'.rowId)
               ELSE otps
    /\ UNCHANGED <<chatVars, verified, variant, now, nextOtpId, users, approaches, nreq,
                   consumed, issued>>

\* await SELECT * FROM otps WHERE email = $1 ORDER BY created_at DESC LIMIT 1
VerifyOtpSelect(r) ==
    /\ r.pc = "v_sel"
    /\ \/ VerifyChecks(r, LatestOtpRows(r.email))
       \/ Respond(r, Error(500, "Verification failed"))
    /\ UNCHANGED <<chatVars, verified, variant, now, otps, nextOtpId, users, approaches, nreq,
                   consumed, issued>>

\* await SELECT * FROM users WHERE email = $1
VerifyOtpSelectUser(r) ==
    /\ r.pc = "v_user"
    /\ \/ Continue(r, [r EXCEPT !.pc = "v_del", !.user = UsersByEmail(r.email)])
       \/ Respond(r, Error(500, "Verification failed"))
    /\ UNCHANGED <<chatVars, verified, variant, now, otps, nextOtpId, users, approaches, nreq,
                   consumed, issued>>

\* res.json({ success: true, isNewUser: true }) or
\* res.json({ success: true, isNewUser: false, user: user.rows[0] })
VerifySuccess(user) ==
    IF user = {} THEN [status |-> 200, success |-> TRUE, isNewUser |-> TRUE]
    ELSE [status |-> 200, success |-> TRUE, isNewUser |-> FALSE,
          user |-> CHOOSE u \in user : TRUE]

\* await DELETE FROM otps WHERE id = $1; then the success response.  again
\* records that an earlier verify-otp already answered success for the row.
VerifyOtpDelete(r) ==
    /\ r.pc = "v_del"
    /\ \/ /\ otps' = DeleteOtpById(r.record.id)
          /\ consumed' = consumed \cup {r.record.id}
          /\ verified' = verified \cup {r.email}
          /\ Finish(r, [r EXCEPT !.again = r.record.id \in consumed],
                    VerifySuccess(r.user))
       \/ /\ Respond(r, Error(500, "Verification failed"))
          /\ UNCHANGED <<otps, consumed, verified>>
    /\ UNCHANGED <<chatVars, variant, now, nextOtpId, users, approaches, nreq, issued>>

(* ----------------------- POST /api/match/approach ---------------------- *)

\* The (fromUserId, toUserId) a request may carry: the two users either way,
\* and a sender id, 3, that no row of users has.
ApproachInputs == {<<1, 2>>, <<2, 1>>, <<3, 1>>}

\* const { fromUserId, toUserId, requestLine } = req.body; the coins lookup
\* is issued.  usersBefore and approachesBefore are the tables as the request
\* found them.
ApproachBegin(total, limit) ==
    /\ CanBegin(total, limit)
    /\ nreq' = nreq + 1
    /\ \E input \in ApproachInputs :
         reqs' = reqs \cup
            {[id |-> nreq + 1, route |-> "approach", pc |-> "a_sel",
              res |-> NoResponse, fromUserId |-> input[1], toUserId |-> input[2],
              userRes |-> {}, debited |-> FALSE, inserted |-> FALSE,
              usersBefore |-> users, approachesBefore |-> approaches]}
    /\ sent' = Append(sent, 0)
    /\ UNCHANGED <<chatVars, verified, variant, now, otps, nextOtpId, users, approaches, last,
                   consumed, issued>>

\* Mutant of ApproachSelect: with no row the balance check reads undefined
\* without throwing (as userRes.rows[0]?.coins < 10 would) and passes.
ApproachSelectNoRowPasses(r) ==
    /\ r.pc = "a_sel"
    /\ LET rows == CoinsOf(r.fromUserId)
           r2 == [r EXCEPT !.userRes = rows]
       IN  \/ IF \E coins \in rows : NotEnoughCoins(coins)
              THEN Finish(r, r2, Error(400, "Not enough coins"))
              ELSE Continue(r, [r2 EXCEPT !.pc = "a_upd"])
           \/ Respond(r, Error(500, "Approach failed"))
    /\ UNCHANGED <<chatVars, verified, variant, now, otps, nextOtpId, users, approaches, nreq,
                   consumed, issued>>

\* await SELECT coins FROM users WHERE id = $1; then the balance check.
\* With no row, userRes.rows[0] is undefined and reading .coins throws.
ApproachSelect(r) ==
    /\ r.pc = "a_sel"
    /\ LET rows == CoinsOf(r.fromUserId)
           r2 == [r EXCEPT !.userRes = rows]
       IN  \/ IF rows = {} THEN Finish(r, r2, Error(500, "Approach failed"))
              ELSE IF \E coins \in rows : NotEnoughCoins(coins)
                   THEN Finish(r, r2, Error(400, "Not enough coins"))
                   ELSE Continue(r, [r2 EXCEPT !.pc = "a_upd"])
           \/ Respond(r, Error(500, "Approach failed"))
    /\ UNCHANGED <<chatVars, verified, variant, now, otps, nextOtpId, users, approaches, nreq,
                   consumed, issued>>

\* await UPDATE users SET coins = coins - 10 WHERE id = $1
ApproachDebit(r) ==
    /\ r.pc = "a_upd"
    /\ \/ /\ users' = DebitCoins(r.fromUserId)
          /\ Continue(r, [r EXCEPT !.pc = "a_ins", !.debited = TRUE])
       \/ /\ Respond(r, Error(500, "Approach failed"))
          /\ UNCHANGED users
    /\ UNCHANGED <<chatVars, verified, variant, now, otps, nextOtpId, approaches, nreq, consumed, issued>>

\* await INSERT INTO approaches ...; then res.json({ success: true })
ApproachInsert(r) ==
    /\ r.pc = "a_ins"
    /\ \/ /\ approaches' = InsertApproach(r.fromUserId, r.toUserId)
          /\ Finish(r, [r EXCEPT !.inserted = TRUE], [status |-> 200, success |-> TRUE])
       \/ /\ Respond(r, Error(500, "Approach failed"))
          /\ UNCHANGED approaches
    /\ UNCHANGED <<chatVars, verified, variant, now, otps, nextOtpId, users, nreq, consumed, issued>>

(* --------------------- POST /api/users/create-profile ------------------ *)

\* The gender a profile may carry.
Genders == {"male", "female"}

\* INSERT INTO users (email, ..., coins) VALUES ($1, ..., 400) RETURNING *:
\* the row, under the table's next serial key.  (The profile fields other
\* than gender are carried along unread and left out.)
NewUserId == Cardinality(DOMAIN users) + 1
NewUser(email, gender) == [email |-> email, gender |-> gender, coins |-> StartingCoins]

\* const { email, name, gender, ... } = req.body; the INSERT is issued.
CreateProfileBegin(total, limit, emails) ==
    /\ CanBegin(total, limit)
    /\ nreq' = nreq + 1
    /\ \E email \in emails, gender \in Genders :
         reqs' = reqs \cup
            {[id |-> nreq + 1, route |-> "create-profile", pc |-> "p_ins",
              res |-> NoResponse, email |-> email, gender |-> gender]}
    /\ sent' = Append(sent, 0)
    /\ UNCHANGED <<chatVars, verified, variant, now, otps, nextOtpId, users, approaches,
                   last, consumed, issued>>

\* await INSERT INTO users ...; then res.json({ success: true, user }).  The
\* store may reject the INSERT: 500 'Database error'.
CreateProfile ==
    /\ \E r \in reqs :
         /\ r.pc = "p_ins"
         /\ \/ /\ users' = users @@ (NewUserId :> NewUser(r.email, r.gender))
               /\ Respond(r, [status |-> 200, success |-> TRUE,
                              user |-> NewUser(r.email, r.gender)])
            \/ /\ Respond(r, Error(500, "Database error"))
               /\ UNCHANGED users
    /\ UNCHANGED <<chatVars, verified, variant, now, otps, nextOtpId, approaches,
                   nreq, consumed, issued>>

(* ----------------------- GET /api/match/suggestions -------------------- *)

\* SELECT * FROM users WHERE id != $1 (part_001: WHERE gender != $1 AND
\* id != $2): the ids of the rows found.  (ORDER BY created_at DESC LIMIT 20
\* orders and caps the list; the model keeps the set.)
SuggestedUsers(userId, gender) ==
    {u \in DOMAIN users :
        /\ u # userId
        /\ variant = "part_001" => users[u].gender # gender}

\* const { userId [, gender] } = req.query; the SELECT is issued.
SuggestionsBegin(total, limit) ==
    /\ CanBegin(total, limit)
    /\ nreq' = nreq + 1
    /\ \E userId \in DOMAIN users, gender \in Genders :
         reqs' = reqs \cup
            {[id |-> nreq + 1, route |-> "suggestions", pc |-> "g_sel",
              res |-> NoResponse, userId |-> userId, gender |-> gender]}
    /\ sent' = Append(sent, 0)
    /\ UNCHANGED <<chatVars, verified, variant, now, otps, nextOtpId, users, approaches,
                   last, consumed, issued>>

\* await SELECT ...; then res.json({ users: result.rows })
Suggestions ==
    /\ \E r \in reqs :
         /\ r.pc = "g_sel"
         /\ \/ Respond(r, [status |-> 200,
                            users |-> SuggestedUsers(r.userId, r.gender)])
            \/ Respond(r, Error(500, "Failed to fetch matches"))
    /\ UNCHANGED <<chatVars, verified, variant, now, otps, nextOtpId, users, approaches,
                   nreq, consumed, issued>>

(* --------------------------- chat: socket.io --------------------------- *)

\* The deployments that have the chat section (part_001 has none).
ChatVariants == {"server.js", "part_000"}

\* An identity is a string, modelled as the sequence of its characters.
IdA == <<"a">>
IdC == <<"c">>
IdAB == <<"a", "_", "b">>
IdBC == <<"b", "_", "c">>
ChatIds == {IdA, IdC, IdAB, IdBC}

\* The UTF-16 code units of the characters used.
CharCode == [ch \in {"_", "a", "b", "c"} |->
                CASE ch = "_" -> 95 [] ch = "a" -> 97 [] ch = "b" -> 98 [] OTHER -> 99]

\* s < t for two strings: the comparison Array.prototype.sort makes when
\* given no comparator (code unit by code unit, a proper prefix first).
RECURSIVE Less(_, _)
Less(s, t) ==
    IF t = << >> THEN FALSE
    ELSE IF s = << >> THEN TRUE
    ELSE IF s[1] = t[1] THEN Less(Tail(s), Tail(t))
    ELSE CharCode[s[1]] < CharCode[t[1]]

\* [x, y].sort()
Sort(x, y) == IF Less(y, x) THEN <<y, x>> ELSE <<x, y>>

\* list.join(sep)
RECURSIVE Join(_, _)
Join(list, sep) ==
    IF list = << >> THEN << >>
    ELSE IF Len(list) = 1 THEN list[1]
    ELSE list[1] \o sep \o Join(Tail(list), sep)

\* Mutant of RoomName: the pair is joined unsorted.
RoomNameUnsorted(userId, otherUserId) == Join(<<userId, otherUserId>>, <<"_">>)

\* [userId, otherUserId].sort().join('_')
RoomName(userId, otherUserId) == Join(Sort(userId, otherUserId), <<"_">>)

\* Map.prototype.set: the value of an existing key is replaced in place, a
\* new key is added at the end.
MapSet(map, key, value) ==
    IF \E i \in 1..Len(map) : map[i].key = key
    THEN [i \in 1..Len(map) |->
             IF map[i].key = key THEN [key |-> key, value |-> value] ELSE map[i]]
    ELSE Append(map, [key |-> key, value |-> value])

\* Array.from(map.keys())
MapKeys(map) == [i \in 1..Len(map) |-> map[i].key]

\* The connections io.to(roomName) reaches.
Members(roomName) == {s \in sockets : roomName \in rooms[s]}

\* io.on('connection', (socket) => ...): a client connects.
Connect(maxSockets) ==
    /\ nsock < maxSockets
    /\ nsock' = nsock + 1
    /\ sockets' = sockets \cup {nsock + 1}
    /\ rooms' = [s \in sockets' |-> IF s \in sockets THEN rooms[s] ELSE {}]
    /\ UNCHANGED <<messages, onlineUsers, sending, nevt, emitted, joinLog, connectLog>>
    /\ UNCHANGED <<verified, sent, variant, now, otps, nextOtpId, users, approaches,
                   reqs, nreq, last, consumed, issued>>

\* Mutant of PresenceSet: a registered identity keeps its first handle.
PresenceSetIfAbsent(userId, socketId) ==
    IF \E i \in 1..Len(onlineUsers) : onlineUsers[i].key = userId
    THEN onlineUsers
    ELSE MapSet(onlineUsers, userId, socketId)

\* onlineUsers.set(userId, socket.id)
PresenceSet(userId, socketId) == MapSet(onlineUsers, userId, socketId)

\* socket.on('user_connected', (userId) => ...)
UserConnected(maxEvents, ids) ==
    /\ nevt < maxEvents
    /\ nevt' = nevt + 1
    /\ \E s \in sockets, userId \in ids :
         /\ onlineUsers' = PresenceSet(userId, s)
         /\ emitted' = [event |-> "online_users", data |-> MapKeys(onlineUsers'),
                        to |-> sockets]
         /\ connectLog' = Append(connectLog, <<userId, s>>)
    /\ UNCHANGED <<messages, sockets, nsock, rooms, sending, joinLog>>
    /\ UNCHANGED <<verified, sent, variant, now, otps, nextOtpId, users, approaches,
                   reqs, nreq, last, consumed, issued>>

\* socket.on('join_room', ({ userId, otherUserId }) => ...)
JoinRoom(maxEvents, pairs) ==
    /\ nevt < maxEvents
    /\ nevt' = nevt + 1
    /\ \E s \in sockets, pair \in pairs :
         /\ rooms' = [rooms EXCEPT ![s] = @ \cup {RoomName(pair[1], pair[2])}]
         /\ joinLog' = joinLog \cup {<<s, pair[1], pair[2]>>}
    /\ UNCHANGED <<messages, sockets, nsock, onlineUsers, sending, emitted, connectLog>>
    /\ UNCHANGED <<verified, sent, variant, now, otps, nextOtpId, users, approaches,
                   reqs, nreq, last, consumed, issued>>

\* socket.on('send_message', async (data) => ...): roomName is computed and
\* the INSERT issued; n numbers the handler.
SendMessageBegin(maxEvents, pairs) ==
    /\ nevt < maxEvents
    /\ nevt' = nevt + 1
    /\ sockets # {}
    /\ \E pair \in pairs :
         sending' = sending \cup
            {[n |-> nevt + 1, pc |-> "m_ins", senderId |-> pair[1],
              receiverId |-> pair[2], roomName |-> RoomName(pair[1], pair[2]),
              savedMsg |-> NoRow]}
    /\ UNCHANGED <<messages, sockets, nsock, rooms, onlineUsers, emitted, joinLog,
                   connectLog>>
    /\ UNCHANGED <<verified, sent, variant, now, otps, nextOtpId, users, approaches,
                   reqs, nreq, last, consumed, issued>>

\* INSERT INTO messages (sender_id, receiver_id, message) VALUES ($1, $2, $3)
\* RETURNING *: id is the table's serial key and created_at the store's clock
\* at the insert.  (message is carried along unread and left out.)
NewMessage(senderId, receiverId) ==
    [id |-> Len(messages) + 1, sender_id |-> senderId, receiver_id |-> receiverId,
     created_at |-> now]

\* Mutant of SendMessageInsert: the record is emitted when the INSERT is
\* issued, not when it has resolved.
SendMessageEmitsUnsaved(h) ==
    /\ h.pc = "m_ins"
    /\ emitted' = [event |-> "receive_message",
                   data |-> NewMessage(h.senderId, h.receiverId),
                   to |-> Members(h.roomName)]
    /\ \/ /\ messages' = Append(messages, NewMessage(h.senderId, h.receiverId))
          /\ sending' = (sending \ {h}) \cup
                {[h EXCEPT !.pc = "m_emit",
                           !.savedMsg = NewMessage(h.senderId, h.receiverId)]}
       \/ /\ sending' = sending \ {h}
          /\ UNCHANGED messages
    /\ UNCHANGED <<sockets, nsock, rooms, onlineUsers, nevt, joinLog, connectLog>>
    /\ UNCHANGED <<verified, sent, variant, now, otps, nextOtpId, users, approaches,
                   reqs, nreq, last, consumed, issued>>

\* The store executes the INSERT of a send_message, or rejects it: the catch
\* block logs the error and the handler ends.
SendMessageInsert(h) ==
    /\ h.pc = "m_ins"
    /\ \/ /\ messages' = Append(messages, NewMessage(h.senderId, h.receiverId))
          /\ sending' = (sending \ {h}) \cup
                {[h EXCEPT !.pc = "m_emit",
                           !.savedMsg = NewMessage(h.senderId, h.receiverId)]}
       \/ /\ sending' = sending \ {h}
          /\ UNCHANGED messages
    /\ UNCHANGED <<sockets, nsock, rooms, onlineUsers, nevt, emitted, joinLog,
                   connectLog>>
    /\ UNCHANGED <<verified, sent, variant, now, otps, nextOtpId, users, approaches,
                   reqs, nreq, last, consumed, issued>>

\* io.to(roomName)
Recipients(roomName) == Members(roomName)

\* The await of a send_message resolves:
\* io.to(roomName).emit('receive_message', savedMsg.rows[0])
SendMessageEmit(h) ==
    /\ h.pc = "m_emit"
    /\ emitted' = [event |-> "receive_message", data |-> h.savedMsg,
                   to |-> Recipients(h.roomName)]
    /\ sending' = sending \ {h}
    /\ UNCHANGED <<messages, sockets, nsock, rooms, onlineUsers, nevt, joinLog,
                   connectLog>>
    /\ UNCHANGED <<verified, sent, variant, now, otps, nextOtpId, users, approaches,
                   reqs, nreq, last, consumed, issued>>

\* Mutant of PresenceAfterDisconnect: the entries of the connection are
\* removed.
PresenceAfterDisconnectPruned(socketId) ==
    SelectSeq(onlineUsers, LAMBDA entry : entry.value # socketId)

\* socket.on('disconnect', () => console.log(...)): what the handler leaves
\* of onlineUsers.
PresenceAfterDisconnect(socketId) == onlineUsers

\* A connection closes: socket.io takes it out of its rooms and the
\* disconnect handler runs.
Disconnect ==
    /\ \E s \in sockets :
         /\ sockets' = sockets \ {s}
         /\ rooms' = [x \in sockets' |-> rooms[x]]
         /\ onlineUsers' = PresenceAfterDisconnect(s)
    /\ UNCHANGED <<messages, nsock, sending, nevt, emitted, joinLog, connectLog>>
    /\ UNCHANGED <<verified, sent, variant, now, otps, nextOtpId, users, approaches,
                   reqs, nreq, last, consumed, issued>>

(* ---------------- GET /api/chat/history/:userId/:otherUserId ------------ *)

\* The rows of the messages table.
MessageRows == {messages[i] : i \in 1..Len(messages)}

\* WHERE (sender_id = $1 AND receiver_id = $2)
\*    OR (sender_id = $2 AND receiver_id = $1)
HistoryRows(userId, otherUserId) ==
    {m \in MessageRows :
        \/ m.sender_id = userId /\ m.receiver_id = otherUserId
        \/ m.sender_id = otherUserId /\ m.receiver_id = userId}

\* Mutant of Ascending: the rows come in any order (no ORDER BY).
Unordered(rows) ==
    {f \in [1..Cardinality(rows) -> rows] :
        \A i, j \in 1..Cardinality(rows) : i # j => f[i] # f[j]}

\* ORDER BY created_at ASC: the sequences the store may return (rows with
\* equal created_at are in no defined order).
Ascending(rows) ==
    {f \in [1..Cardinality(rows) -> rows] :
        /\ \A i, j \in 1..Cardinality(rows) : i # j => f[i] # f[j]
        /\ \A i, j \in 1..Cardinality(rows) :
              i < j => f[i].created_at <= f[j].created_at}

\* const { userId, otherUserId } = req.params; the SELECT is issued.
HistoryBegin(total, limit, pairs) ==
    /\ CanBegin(total, limit)
    /\ nreq' = nreq + 1
    /\ \E pair \in pairs :
         reqs' = reqs \cup
            {[id |-> nreq + 1, route |-> "history", pc |-> "h_sel",
              res |-> NoResponse, userId |-> pair[1], otherUserId |-> pair[2],
              tableSize |-> 0]}
    /\ sent' = Append(sent, 0)
    /\ UNCHANGED <<chatVars, verified, variant, now, otps, nextOtpId, users, approaches,
                   last, consumed, issued>>

\* await SELECT * FROM messages WHERE ... ORDER BY created_at ASC; then
\* res.json(result.rows).  tableSize is the number of rows the table held
\* when the query ran.
History ==
    /\ \E r \in reqs :
         /\ r.pc = "h_sel"
         /\ \/ \E rows \in Ascending(HistoryRows(r.userId, r.otherUserId)) :
                  Finish(r, [r EXCEPT !.tableSize = Len(messages)],
                         [status |-> 200, body |-> rows])
            \/ Respond(r, Error(500, "Failed to fetch chat history"))
    /\ UNCHANGED <<chatVars, verified, variant, now, otps, nextOtpId, users, approaches,
                   nreq, consumed, issued>>

SendMessage ==
    \E h \in sending :
        \/ SendMessageInsert(h)
        \/ SendMessageEmit(h)

\* The continuation of a send_message whose INSERT has resolved.
SendMessageResolved == \E h \in sending : SendMessageEmit(h)

(* ------------------------------- clock --------------------------------- *)

Tick(maxTicks, steps) ==
    /\ Ticks < maxTicks
    /\ \E d \in steps : now' = now + d
    /\ UNCHANGED <<chatVars, verified, sent, variant, otps, nextOtpId, users,
                   approaches, reqs, nreq, last, consumed, issued>>

(* --------------------------- specifications ---------------------------- *)

\* The server starts over the given users table, the other tables empty.
InitOver(table) ==
    /\ variant \in Variants
    /\ now = 0
    /\ otps = {}
    /\ nextOtpId = 1
    /\ users = table
    /\ approaches = << >>
    /\ reqs = {}
    /\ nreq = 0
    /\ last = NoRequest
    /\ consumed = {}
    /\ issued = [e \in Emails |-> NoRow]
    /\ verified = {}
    /\ sent = << >>
    /\ messages = << >>
    /\ sockets = {}
    /\ nsock = 0
    /\ rooms = [s \in {} |-> {}]
    /\ onlineUsers = << >>
    /\ sending = {}
    /\ nevt = 0
    /\ emitted = NoEvent
    /\ joinLog = {}
    /\ connectLog = << >>

\* The server starts with two profiles: user 1 (EmailA) holding the given
\* coins and user 2 (EmailC) holding the starting grant; EmailB has none.
InitWith(coins) ==
    InitOver((1 :> [email |-> EmailA, gender |-> "male", coins |-> coins]) @@
             (2 :> [email |-> EmailC, gender |-> "female", coins |-> StartingCoins]))

\* Balances user 1 can be left with after earlier approaches.
InitCoins == {0, ApproachCost, 2 * ApproachCost}

Init == InitWith(StartingCoins)
CoinInit == \E coins \in InitCoins : InitWith(coins)

SendOtp ==
    \E r \in reqs :
        \/ SendOtpSelectUser(r)
        \/ SendOtpDelete(r)
        \/ SendOtpInsert(r)
        \/ SendOtpMail(r)

VerifyOtp ==
    \E r \in reqs :
        \/ VerifyOtpSelect(r)
        \/ VerifyOtpSelectUser(r)
        \/ VerifyOtpDelete(r)

Approach ==
    \E r \in reqs :
        \/ ApproachSelect(r)
        \/ ApproachDebit(r)
        \/ ApproachInsert(r)

\* The auth routes for one identity, requests overlapping at their awaits,
\* the clock moving by milliseconds.
Next ==
    \/ Tick(MaxTicks, {1})
    \/ SendOtpBegin(NumReq, MaxInFlight, {EmailA})
    \/ VerifyOtpBegin(NumReq, MaxInFlight, {EmailA})
    \/ SendOtp
    \/ VerifyOtp

Spec == Init /\ [][Next]_vars

\* The auth routes, each request responding before the next is received.
SeqNext ==
    \/ Tick(SeqTicks, TickSteps)
    \/ SendOtpBegin(SeqReq, 1, EmailInputs)
    \/ VerifyOtpBegin(SeqReq, 1, Emails)
    \/ SendOtp
    \/ VerifyOtp

SeqSpec == Init /\ [][SeqNext]_vars

\* The approach route, requests overlapping at their awaits.
CoinNext ==
    \/ ApproachBegin(CoinReq, CoinInFlight)
    \/ Approach

CoinSpec == CoinInit /\ [][CoinNext]_vars

\* The approach route, each request responding before the next is received.
SeqCoinNext ==
    \/ ApproachBegin(SeqCoinReq, 1)
    \/ Approach

SeqCoinSpec == CoinInit /\ [][SeqCoinNext]_vars

\* The pairs a join_room or send_message may carry: {a, b_c} and {a_b, c},
\* whose sorted joins are both a_b_c, and {a, c}, each either way round.
ChatPairs == {<<IdA, IdBC>>, <<IdBC, IdA>>, <<IdAB, IdC>>, <<IdC, IdAB>>,
              <<IdA, IdC>>, <<IdC, IdA>>}

\* The identities a user_connected may carry.
PresenceIds == {IdA, IdC}

ChatInit == Init /\ variant \in ChatVariants

\* The socket.io events of the chat section.
ChatNext ==
    \/ Connect(MaxSockets)
    \/ UserConnected(MaxEvents, PresenceIds)
    \/ JoinRoom(MaxEvents, ChatPairs)
    \/ SendMessageBegin(MaxEvents, ChatPairs)
    \/ SendMessage
    \/ Disconnect

ChatSpec == ChatInit /\ [][ChatNext]_vars

\* The pair the relay is followed with, either way round.
RelayPairs == {<<IdA, IdC>>, <<IdC, IdA>>}

\* join_room and send_message for one pair.
RelayNext ==
    \/ Connect(MaxSockets)
    \/ JoinRoom(MaxEvents, RelayPairs)
    \/ SendMessageBegin(MaxEvents, RelayPairs)
    \/ SendMessage
    \/ Disconnect

\* The event loop runs the continuation of every await that has resolved.
RelaySpec == ChatInit /\ [][RelayNext]_vars /\ WF_vars(SendMessageResolved)

\* The pairs messages are sent and history is asked for: {a, c} either way
\* round, and a pair that shares a with it.
HistoryPairs == {<<IdA, IdC>>, <<IdC, IdA>>, <<IdA, IdBC>>}

\* The history route, one request at a time, while one connection sends
\* messages one after another and the clock moves by milliseconds.
HistoryNext ==
    \/ Tick(HistTicks, {1})
    \/ Connect(1)
    \/ sending = {} /\ SendMessageBegin(HistEvents, HistoryPairs)
    \/ SendMessage
    \/ HistoryBegin(HistReq, 1, RelayPairs)
    \/ History

HistorySpec == ChatInit /\ [][HistoryNext]_vars

\* The server starts with no profile.
ProfileInit == InitOver(<< >>)

\* Sign-up: the auth routes and create-profile, each request responding
\* before the next is received.
ProfileNext ==
    \/ SendOtpBegin(ProfReq, 1, {EmailA})
    \/ VerifyOtpBegin(ProfReq, 1, {EmailA})
    \/ CreateProfileBegin(ProfReq, 1, {EmailA})
    \/ SendOtp
    \/ VerifyOtp
    \/ CreateProfile

ProfileSpec == ProfileInit /\ [][ProfileNext]_vars

\* The six HTTP routes, requests overlapping at their awaits.
RouteNext ==
    \/ SendOtpBegin(RouteReq, RouteInFlight, EmailInputs)
    \/ VerifyOtpBegin(RouteReq, RouteInFlight, {EmailA})
    \/ CreateProfileBegin(RouteReq, RouteInFlight, {EmailB})
    \/ SuggestionsBegin(RouteReq, RouteInFlight)
    \/ ApproachBegin(RouteReq, RouteInFlight)
    \/ HistoryBegin(RouteReq, RouteInFlight, RelayPairs)
    \/ SendOtp
    \/ VerifyOtp
    \/ CreateProfile
    \/ Suggestions
    \/ Approach
    \/ History

\* Every Store or mail call resolves or rejects, and the event loop then
\* runs the handler on.
RouteSpec ==
    /\ Init /\ [][RouteNext]_vars
    /\ WF_vars(SendOtp) /\ WF_vars(VerifyOtp) /\ WF_vars(CreateProfile)
    /\ WF_vars(Suggestions) /\ WF_vars(Approach) /\ WF_vars(History)

(* ------------------------------- claims -------------------------------- *)

\* The otps store holds exactly one row for the email: row id, with this code.
HoldsOnly(email, id, otp) ==
    \E row \in otps : OtpRows(email) = {row} /\ row.id = id /\ row.otp = otp

\* C1: after send-otp requests for an identity that run one after another,
\* the otps store holds exactly one row for that identity, the row the last
\* request inserted: so it is from the insert on (server.js is then suspended
\* at sendMail) and when the request has responded.
C1_OneRowAfterIssue ==
    /\ \A r \in reqs : (r.route = "send-otp" /\ r.rowId # 0)
                          => HoldsOnly(r.email, r.rowId, r.otp)
    /\ (reqs = {} /\ last.route = "send-otp" /\ last.rowId # 0)
          => HoldsOnly(last.email, last.rowId, last.otp)

\* A second send-otp for the identity has replaced the row of the first.
C1_Witness ==
    /\ reqs = {} /\ last.route = "send-otp" /\ last.rowId # 0
    /\ last.deleted = 1
    /\ HoldsOnly(last.email, last.rowId, last.otp)

\* C2: without overlap, verify-otp succeeds at most once per issued code: a
\* call with the correct, unexpired code answers success (unless the store
\* rejects a query: 500) and its row is gone from the store; the call that
\* follows it with the same identity and code answers 400 'No OTP found'
\* (unless the store rejects its lookup: 500).
C2_VerifyOnce ==
    last.route = "verify-otp" =>
        /\ (last.matches /\ ~last.pastExpiry) => last.res.status \in {200, 500}
        /\ last.res.status = 200 =>
              /\ last.matches /\ ~last.pastExpiry
              /\ \A row \in otps : row.id # last.rowId
        /\ last.replay => last.res \in {Error(400, "No OTP found"),
                                        Error(500, "Verification failed")}

\* The call that repeats a successful verify-otp has answered 'No OTP found'.
C2_Witness ==
    /\ last.route = "verify-otp" /\ last.replay
    /\ last.res = Error(400, "No OTP found")

\* C3: a row expires five minutes after the Date.now() of its send-otp; a
\* verify-otp whose check finds the current time past the row's expiry
\* answers 'OTP expired' whether or not the submitted code equals the row's
\* (and answers so only then), and no verify-otp called after the expiry
\* answers success.
C3_ExpiryFirst ==
    /\ \A r \in reqs : (r.route = "send-otp" /\ r.pc # "s_user")
                          => r.expiresAt = r.issuedAt + 300000
    /\ \A r \in reqs : (r.route = "send-otp" /\ r.rowId # 0)
                          => \A row \in otps : row.id = r.rowId
                                                  => row.expires_at = r.expiresAt
    /\ last.route = "verify-otp" =>
          /\ last.pastExpiry <=> last.res = Error(400, "OTP expired")
          /\ last.calledPastExpiry => last.res.status # 200

\* A verify-otp with the right code has been answered 'OTP expired'.
C3_Witness ==
    /\ last.route = "verify-otp" /\ last.matches /\ last.pastExpiry
    /\ last.res = Error(400, "OTP expired")

\* C4: the coin balance of every user is >= 0 in every reachable state.
C4_BalanceNeverNegative == \A u \in DOMAIN users : users[u].coins >= 0

\* C5: a single approach request of a sender holding exactly 10 coins
\* succeeds (unless the store rejects a query: 500) and leaves the balance
\* at 0; one of a sender holding less than 10 answers 400 'Not enough coins'
\* and changes neither the users nor the approaches table.
C5_ApproachAtTheCost ==
    (reqs = {} /\ last.route = "approach") =>
        /\ (last.userRes = {10} /\ last.res.status # 500) =>
              /\ last.res = [status |-> 200, success |-> TRUE]
              /\ users[last.fromUserId].coins = 0
        /\ (last.userRes # {} /\ \A coins \in last.userRes : coins < 10) =>
              /\ last.res = Error(400, "Not enough coins")
              /\ users = last.usersBefore
              /\ approaches = last.approachesBefore

\* User 1 has spent the last 10 coins on an approach and the next request is
\* refused.
C5_Witness ==
    /\ reqs = {} /\ last.route = "approach" /\ last.fromUserId = 1
    /\ last.userRes = {0} /\ last.res = Error(400, "Not enough coins")
    /\ users[1].coins = 0
    /\ Len(approaches) = 1 /\ approaches[1].from_user_id = 1

\* C6: the otps store holds at most one row for each identity in every
\* reachable state.
C6_AtMostOneRow == \A email \in Emails : Cardinality(OtpRows(email)) <= 1

\* C7: at most one verify-otp answers success for one issued code.
C7_NoReplay == (last.route = "verify-otp" /\ last.res.status = 200) => ~last.again

\* C8: no verify-otp called after a newer code was inserted for the identity
\* answers success for a code issued earlier (a row created before the newer
\* one, carrying another code).
C8_NoSuperseded == (last.route = "verify-otp" /\ last.res.status = 200) => ~last.stale

\* C9: when an approach request has finished, the sender was debited for it
\* if and only if its approach record was inserted.
C9_DebitIffRecord == last.route = "approach" => (last.debited <=> last.inserted)

\* C10: a send-otp that inserted its row and whose mail send rejected
\* answers the success response with isNewUser.
C10_MailFailureIsNotFatal ==
    (last.route = "send-otp" /\ last.rowId # 0 /\ last.mail = "failed") =>
        /\ last.res.status = 200
        /\ "isNewUser" \in DOMAIN last.res

\* The step emits receive_message.
EmitsMessage == emitted' # emitted /\ emitted'.event = "receive_message"

\* C11: the room key is symmetric: a connection that called join_room with
\* (A, B) is in the room join_room with (B, A) names, and when a persisted
\* send_message of sender A to receiver B is emitted, receive_message goes to
\* every open connection that joined with (userId = B, otherUserId = A).
C11_RoomKeySymmetric ==
    /\ [](\A j \in joinLog : j[1] \in sockets => RoomName(j[3], j[2]) \in rooms[j[1]])
    /\ [][EmitsMessage =>
            \A j \in joinLog :
                (/\ j[1] \in sockets
                 /\ j[2] = emitted'.data.receiver_id
                 /\ j[3] = emitted'.data.sender_id) => j[1] \in emitted'.to]_vars

\* A message of A to B has reached a connection that joined as (B, A) only.
C11_Witness ==
    /\ emitted.event = "receive_message"
    /\ emitted.data \in {messages[i] : i \in 1..Len(messages)}
    /\ \E s \in emitted.to :
          /\ <<s, emitted.data.receiver_id, emitted.data.sender_id>> \in joinLog
          /\ <<s, emitted.data.sender_id, emitted.data.receiver_id>> \notin joinLog

\* The step ends a send_message handler whose INSERT was rejected.
InsertFails ==
    \E h \in sending : h.pc = "m_ins" /\ \A h2 \in sending' : h2.n # h.n

\* C12: send_message broadcasts only after persistence: every
\* receive_message carries a row of the messages table; a send_message whose
\* INSERT is rejected emits nothing and leaves the table as it was; and every
\* row inserted (its handler then waits for the await to resolve) is
\* eventually emitted to the connections in the room of its sender and
\* receiver.
C12_BroadcastAfterPersistence ==
    /\ [](emitted.event = "receive_message" => emitted.data \in MessageRows)
    /\ [][InsertFails => UNCHANGED <<emitted, messages>>]_vars
    /\ \A k \in 1..MaxEvents :
          (\E h \in sending : h.pc = "m_emit" /\ h.savedMsg.id = k) ~>
             (/\ Len(messages) >= k
              /\ emitted.event = "receive_message"
              /\ emitted.data = messages[k]
              /\ emitted.to = Members(RoomName(messages[k].sender_id,
                                               messages[k].receiver_id)))

\* A send_message has been persisted and then emitted to a connection in
\* its room.
C12_Witness ==
    /\ Len(messages) = 1 /\ sending = {}
    /\ \E j \in joinLog : j[1] \in sockets
    /\ emitted.event = "receive_message" /\ emitted.data = messages[1]
    /\ emitted.to # {}
    /\ messages[1].id = 1

\* The request that responded last is a history request answered with rows.
HistoryAnswered(e) == e.route = "history" /\ e.res.status = 200

\* The rows of the pair among the first n rows of the messages table.
PairRows(e) == {m \in HistoryRows(e.userId, e.otherUserId) : m.id <= e.tableSize}

\* The body of a history response: exactly the rows of the pair, each once,
\* in ascending creation time.
ExactlyThePairAscending(e) ==
    /\ {e.res.body[i] : i \in 1..Len(e.res.body)} = PairRows(e)
    /\ Len(e.res.body) = Cardinality(PairRows(e))
    /\ \A i, j \in 1..Len(e.res.body) :
          i < j => e.res.body[i].created_at <= e.res.body[j].created_at

\* The step answers history(B, A) right after history(A, B) was answered,
\* the table holding the same rows for both.
MirrorAnswered ==
    /\ HistoryAnswered(last) /\ HistoryAnswered(last')
    /\ last'.userId = last.otherUserId /\ last'.otherUserId = last.userId
    /\ last'.tableSize = last.tableSize

\* No two rows of the pair have the same creation time.
DistinctTimes(e) ==
    \A m1, m2 \in PairRows(e) : m1 # m2 => m1.created_at # m2.created_at

\* C13 as stated: history(A,B) returns exactly the persisted messages of the
\* pair, either direction, in ascending creation time, and history(A,B)
\* equals history(B,A).
C13_HistorySymmetric ==
    /\ [](HistoryAnswered(last) => ExactlyThePairAscending(last))
    /\ [][MirrorAnswered => last'.res.body = last.res.body]_vars

\* C13 as amended: history(A,B) returns exactly the persisted messages of
\* the pair, either direction, in ascending creation time; history(B,A) on
\* the same table returns the same rows, and in the same order when no two
\* of them have the same creation time.
C13_HistoryAscending ==
    /\ [](HistoryAnswered(last) => ExactlyThePairAscending(last))
    /\ [][MirrorAnswered =>
            /\ {last'.res.body[i] : i \in 1..Len(last'.res.body)}
                  = {last.res.body[i] : i \in 1..Len(last.res.body)}
            /\ DistinctTimes(last) => last'.res.body = last.res.body]_vars

\* history has returned messages of both directions, created at different
\* times, and left out a message of another pair.
C13_Witness ==
    /\ HistoryAnswered(last) /\ Len(last.res.body) = 2
    /\ last.res.body[1].sender_id = last.res.body[2].receiver_id
    /\ last.res.body[1].created_at < last.res.body[2].created_at
    /\ Len(messages) = 3 /\ last.tableSize = 3

\* C14: in every reachable state a user record exists for an email only if
\* a verify-otp for that email has answered success before, and every user
\* record created starts with 400 coins.
C14_UserOnlyAfterVerification ==
    \A u \in DOMAIN users :
        /\ users[u].email \in verified
        /\ users[u].coins = 400

\* C15: the send-otp response does not return the generated code: the
\* success response carries success, message and isNewUser and nothing else,
\* and is the response the request would have got with any other code.
C15_CodeNotInResponse ==
    (last.route = "send-otp" /\ last.res.status = 200) =>
        /\ DOMAIN last.res = {"status", "success", "message", "isNewUser"}
        /\ \A otp \in Codes : last.res = SendOtpSuccess(last.res.isNewUser, otp)

\* The identity of the send-otp that responded last is empty or missing or,
\* in the domain-restricted deployment, does not end in the domain suffix.
BadIdentity ==
    \/ last.email = NoEmail
    \/ variant = "part_001" /\ last.email[Len(last.email)] # "@LJKU.edu.in"

\* The step receives a request and answers it 400 at once.
RejectedOnArrival ==
    /\ Len(sent') = Len(sent) + 1 /\ sent'[Len(sent')] = 1
    /\ last'.res.status = 400

\* C16: a send-otp with an empty or missing identity (in part_001 also one
\* not ending in @LJKU.edu.in) answers 400 before any effect: it has deleted
\* and inserted no otps row and dispatched no mail, and the step that answers
\* it leaves the otps and users tables as they were, so the codes issued
\* before stay in the store.
C16_RejectedBeforeAnyEffect ==
    /\ []((last.route = "send-otp" /\ BadIdentity) =>
            /\ last.res.status = 400
            /\ last.rowId = 0 /\ last.deleted = 0 /\ last.mail = "none")
    /\ [][RejectedOnArrival => UNCHANGED <<otps, nextOtpId, users, issued>>]_vars

\* A send-otp for b@x.edu has been refused by the domain-restricted
\* deployment while the code issued for a@LJKU.edu.in is in the store.
C16_Witness ==
    /\ last.route = "send-otp" /\ last.email = EmailB /\ variant = "part_001"
    /\ last.res = Error(400, "Only @LJKU.edu.in emails allowed")
    /\ OtpRows(EmailA) # {}
    /\ sent[Len(sent)] = 1

\* The identities the user_connected events so far have carried.
Registered == {connectLog[i][1] : i \in 1..Len(connectLog)}

\* The connection of the most recent user_connected for the identity.
LastHandle(userId) ==
    LET i == CHOOSE i \in 1..Len(connectLog) :
                 /\ connectLog[i][1] = userId
                 /\ \A j \in (i + 1)..Len(connectLog) : connectLog[j][1] # userId
    IN  connectLog[i][2]

\* C17: after any sequence of user_connected events the presence map holds
\* exactly one entry per identity that ever registered, whose handle is the
\* connection of the most recent user_connected for it; and each
\* user_connected emits to all connections an online_users list that is the
\* key set of the map right after the update.
C17_PresenceLastHandleWins ==
    /\ [](/\ {onlineUsers[i].key : i \in 1..Len(onlineUsers)} = Registered
          /\ Len(onlineUsers) = Cardinality(Registered)
          /\ \A i \in 1..Len(onlineUsers) :
                onlineUsers[i].value = LastHandle(onlineUsers[i].key))
    /\ [][connectLog' # connectLog =>
            /\ emitted'.event = "online_users"
            /\ {emitted'.data[i] : i \in 1..Len(emitted'.data)} = Registered'
            /\ Len(emitted'.data) = Cardinality(Registered')
            /\ emitted'.to = sockets]_vars

\* An identity has registered again from another connection, after a
\* second identity registered.
C17_Witness ==
    /\ Len(connectLog) = 3 /\ Len(onlineUsers) = 2
    /\ connectLog[1][1] = connectLog[3][1] /\ connectLog[1][2] # connectLog[3][2]
    /\ onlineUsers[1].value = connectLog[3][2]
    /\ emitted.event = "online_users" /\ Len(emitted.data) = 2

\* The identities the presence map holds.
Online == {onlineUsers[i].key : i \in 1..Len(onlineUsers)}

\* C18: a disconnect leaves the presence map unchanged and emits nothing;
\* over connect, user_connected, join_room, send_message and disconnect
\* events the set of identities reported online never shrinks: every
\* online_users list holds every identity registered before, also those
\* whose connection has closed.
C18_PresenceNeverShrinks ==
    /\ [][(sockets' # sockets /\ sockets' \subseteq sockets) =>
             UNCHANGED <<onlineUsers, emitted>>]_vars
    /\ [][Online \subseteq Online']_vars
    /\ [][(emitted' # emitted /\ emitted'.event = "online_users") =>
             Registered \subseteq {emitted'.data[i] : i \in 1..Len(emitted'.data)}]_vars

\* The connection that registered a first identity has closed, and the
\* online_users list emitted for a second identity still holds the first.
C18_Witness ==
    /\ Len(connectLog) = 2 /\ connectLog[1][1] # connectLog[2][1]
    /\ connectLog[1][2] \notin sockets
    /\ emitted.event = "online_users"
    /\ emitted.data = <<connectLog[1][1], connectLog[2][1]>>
    /\ connectLog[1][2] \notin emitted.to /\ emitted.to # {}

\* C19: on each of the six HTTP routes, whether the Store and mail calls
\* resolve or reject, the handler of every request sends exactly one
\* response: none while it is suspended at an await, never two, and one in
\* the end.
C19_ExactlyOneResponse ==
    /\ [](\A id \in 1..Len(sent) : sent[id] <= 1)
    /\ [](\A r \in reqs : sent[r.id] = 0)
    /\ \A id \in 1..RouteReq :
          (Len(sent) >= id) ~> (Len(sent) >= id /\ sent[id] = 1)

\* Two overlapping requests have both been answered, the last one 500 from
\* its catch block.
C19_Witness ==
    /\ Len(sent) = 2 /\ sent[1] = 1 /\ sent[2] = 1 /\ reqs = {}
    /\ last.route = "history" /\ last.res.status = 500

\* The connection called join_room for the unordered pair {x, y}.
JoinedPair(s, x, y) == <<s, x, y>> \in joinLog \/ <<s, y, x>> \in joinLog

\* C20: the room key scopes a broadcast to exactly one pair (no two
\* different unordered pairs of identities get the same room key): a message
\* persisted for sender A and receiver B is emitted only to connections that
\* called join_room for the pair {A, B}, never to one that joined only rooms
\* of other pairs.
C20_RoomScopedToOnePair ==
    [][EmitsMessage =>
         \A s \in emitted'.to :
             JoinedPair(s, emitted'.data.sender_id, emitted'.data.receiver_id)]_vars

\* The verify-otp that responded last failed with one of the three 400s.
VerifyFailed(e) ==
    /\ e.route = "verify-otp"
    /\ e.res \in {Error(400, "No OTP found"), Error(400, "OTP expired"),
                  Error(400, "Wrong OTP")}

\* The step takes rows out of the otps table.
RemovesRows == otps \ otps' # {}

\* The step is the DELETE of a send-otp for the identity of the rows removed.
ReplacedBySendOtp ==
    \E r \in reqs : /\ r.route = "send-otp" /\ r.pc = "s_del"
                     /\ \A row \in otps \ otps' : row.email = r.email

\* The step is the DELETE of a verify-otp that answers success for the row
\* removed.
ConsumedByVerifyOtp ==
    /\ last'.route = "verify-otp" /\ last'.res.status = 200
    /\ \A row \in otps \ otps' : row.id = last'.rowId

\* C21: a failed verify-otp (no code found, expired code, or a code that is
\* not the stored string) leaves the otps and users tables unchanged: no step
\* of a verify-otp but the DELETE of a successful one changes them, the row a
\* failed call looked up is still in the store when it has answered, a
\* correct submission that follows a wrong guess before expiry succeeds
\* (unless the store rejects a query: 500), and rows leave the store only by
\* a successful verify-otp or by the DELETE of a send-otp for their identity.
C21_FailedVerifyChangesNothing ==
    /\ [][(\E r \in reqs \cup reqs' : r.route = "verify-otp")
             => (UNCHANGED <<otps, users>> \/ ConsumedByVerifyOtp)]_vars
    /\ []((reqs = {} /\ VerifyFailed(last) /\ last.rowId # 0)
             => \E row \in otps : row.id = last.rowId)
    /\ []((last.route = "verify-otp" /\ last.retry /\ last.matches
               /\ ~last.pastExpiry) => last.res.status \in {200, 500})
    /\ [][RemovesRows => (ReplacedBySendOtp \/ ConsumedByVerifyOtp)]_vars

\* A correct submission has succeeded right after a wrong guess.
C21_Witness ==
    /\ last.route = "verify-otp" /\ last.retry
    /\ last.res.status = 200 /\ last.matches

\* The approach that responded last named a sender with no user record.
UnknownSender(e) ==
    e.route = "approach" /\ e.fromUserId \notin DOMAIN e.usersBefore

\* C22: an approach request whose fromUserId matches no user record ends
\* with 500 'Approach failed' and changes nothing: no balance is updated and
\* no approach record is inserted, users and approaches are as the request
\* found them, and no step of such a request changes either table.
C22_UnknownSenderChangesNothing ==
    /\ []((reqs = {} /\ UnknownSender(last))
             => /\ last.res = Error(500, "Approach failed")
                /\ ~last.debited /\ ~last.inserted
                /\ users = last.usersBefore
                /\ approaches = last.approachesBefore)
    /\ [][(\E r \in reqs : r.route = "approach" /\ r.fromUserId \notin DOMAIN users)
             => UNCHANGED <<users, approaches>>]_vars

\* An approach from an unknown sender has answered after the SELECT found no
\* row, in a store that already holds an approach record.
C22_Witness ==
    /\ reqs = {} /\ UnknownSender(last)
    /\ last.userRes = {} /\ last.res = Error(500, "Approach failed")
    /\ approaches # << >>

====
